---- MODULE Spec2Model ----
(***************************************************************************)
(* fibonaccier.py: two concurrent, randomly delayed computations of the    *)
(* N-th Fibonacci number on one asyncio event loop, and the report of      *)
(* which of the two finished first.                                        *)
(*                                                                         *)
(* Optional values (a local that is not bound yet, a task that has no      *)
(* result yet) are sequences of length 0 or 1: <<>> is "no value".         *)
(***************************************************************************)
EXTENDS Integers, Sequences, FiniteSets, TLC

(* ------------------------------ bounds -------------------------------- *)

\* the largest N given on the command line or on stdin
MaxN == 4
\* the largest number of command-line arguments after the script name
MaxArgs == 2
\* the largest reading of the clock
MaxTime == 2
\* the largest value in an injected result pair (SpecResolve)
MaxValue == 2

\* gather(fib(n), fib(n)) makes two tasks
NumTasks == 2
Tasks == 1..NumTasks

VARIABLES
    args,      \* argv[1:], each argument a sequence of characters
    stdin,     \* <<line>>: the line input() will read; <<>>: end of file
    pc,        \* where main is
    n,         \* main's local n: <<>> while unbound, <<k>> once bound
    exc,       \* the exception raised inside main's try block, or "none"
    stdout,    \* what main printed to sys.stdout
    stderr,    \* what main printed to sys.stderr
    results,   \* main's local results: <<>> until gather returns
    line,      \* the string resolve_output returned: <<>> until then
    status,    \* per task: "none", "ready", "running", "sleeping", "done"
    ready,     \* the event loop's FIFO queue of tasks ready to run
    fibpc,     \* per task: where the wrapper fib is
    fibarg,    \* per task: the argument fib was called with, <<>> before
    nth_fib,   \* per task: fib's local nth_fib, <<>> while unbound
    stack,     \* per task: the _fib frames, innermost last
    rv,        \* per task: the value a _fib frame is returning, or <<>>
    result,    \* per task: the tuple fib returned, <<>> until then
    finished,  \* the tasks in the order they completed
    calls,     \* per task: how many times _fib was entered
    sleeps,    \* per task: how many times the task suspended in a sleep
    now,       \* the reading time_ns() would give
    favour     \* the task whose delays are short and which the clock lets
               \* stamp first (SpecFavour); 0: delays and clock are free

vars == <<args, stdin, pc, n, exc, stdout, stderr, results, line, status,
          ready, fibpc, fibarg, nth_fib, stack, rv, result, finished, calls,
          sleeps, now, favour>>

mainVars == <<pc, n, exc, stdout, stderr, results, line>>
inputVars == <<args, stdin>>
\* what is fixed before main runs: the input and the bias of the delays
envVars == <<inputVars, favour>>
countVars == <<calls, sleeps>>
taskVars == <<status, ready, fibpc, fibarg, nth_fib, stack, rv, result,
              finished, countVars>>

(* ------------------------- strings and int() -------------------------- *)

Digits == <<"0", "1", "2", "3", "4", "5", "6", "7", "8", "9">>

IsDigit(c) == \E d \in 1..Len(Digits) : Digits[d] = c

DigitVal(c) == (CHOOSE d \in 1..Len(Digits) : Digits[d] = c) - 1

\* str.strip() on blanks, as int() applies it to its argument
RECURSIVE LStrip(_)
LStrip(s) ==
    IF s # <<>> /\ Head(s) = " " THEN LStrip(Tail(s)) ELSE s

RECURSIVE RStrip(_)
RStrip(s) ==
    IF s # <<>> /\ s[Len(s)] = " " THEN RStrip(SubSeq(s, 1, Len(s) - 1)) ELSE s

Strip(s) == RStrip(LStrip(s))

\* the value of a sequence of decimal digits, most significant first
RECURSIVE DigitsValue(_)
DigitsValue(s) ==
    IF s = <<>> THEN 0
    ELSE DigitsValue(SubSeq(s, 1, Len(s) - 1)) * 10 + DigitVal(s[Len(s)])

\* int(s) on a string of blanks, signs, digits and letters:
\* [ok |-> FALSE] stands for ValueError
ParseInt(s) ==
    LET t == Strip(s)
        signed == t # <<>> /\ Head(t) \in {"-", "+"}
        body == IF signed THEN Tail(t) ELSE t
        valid == body # <<>> /\ \A i \in 1..Len(body) : IsDigit(body[i])
    IN  IF ~valid THEN [ok |-> FALSE, val |-> 0]
        ELSE IF signed /\ Head(t) = "-"
             THEN [ok |-> TRUE, val |-> 0 - DigitsValue(body)]
             ELSE [ok |-> TRUE, val |-> DigitsValue(body)]

\* the decimal numeral a user types for k
RECURSIVE NatStr(_)
NatStr(k) ==
    IF k < 10 THEN <<Digits[k + 1]>>
    ELSE NatStr(k \div 10) \o <<Digits[(k % 10) + 1]>>

ToStr(k) == IF k < 0 THEN <<"-">> \o NatStr(0 - k) ELSE NatStr(k)

\* the strings tried as an argument or as the stdin line: the numerals of
\* -MaxN..MaxN, other spellings of an integer, and text that is no integer
Numerals == {ToStr(k) : k \in (0 - MaxN)..MaxN}
Spellings == {<<"+", "1">>, <<"0", "2">>, <<" ", "1", " ">>}
NonNumeric == {<<>>, <<"a", "b", "c">>, <<"-">>, <<"1", "a">>, <<"1", " ", "2">>}
Strings == Numerals \cup Spellings \cup NonNumeric

(* ---------------------------- resolve_input --------------------------- *)

\* resolve_input with the test of line 197 written n >= 0
ResolveInputNonNegative(argv, inp) ==
    LET text == IF Len(argv) = 0 THEN inp
                ELSE IF Len(argv) = 1 THEN <<argv[1]>>
                ELSE <<>>
        parsed == IF text = <<>> THEN [ok |-> FALSE, val |-> 0]
                  ELSE ParseInt(text[1])
    IN  IF Len(argv) = 0 /\ inp = <<>>
            THEN [exc |-> "EOFError", n |-> <<>>]
        ELSE IF Len(argv) <= 1 /\ ~parsed.ok
            THEN [exc |-> "ValueError", n |-> <<>>]
        ELSE IF Len(argv) > 1
            THEN [exc |-> "UnboundLocalError", n |-> <<>>]
        ELSE IF parsed.val >= 0
            THEN [exc |-> "none", n |-> <<parsed.val>>]
        ELSE [exc |-> "UsageError", n |-> <<>>]

\* the outcome of resolve_input(*args): the exception it raises ("none" if
\* it returns) and the value it returns
ResolveInput(argv, inp) ==
    LET \* lines 191-194: the text handed to int(), if either branch is taken
        text == IF Len(argv) = 0 THEN inp
                ELSE IF Len(argv) = 1 THEN <<argv[1]>>
                ELSE <<>>
        parsed == IF text = <<>> THEN [ok |-> FALSE, val |-> 0]
                  ELSE ParseInt(text[1])
    IN  IF Len(argv) = 0 /\ inp = <<>>
            THEN [exc |-> "EOFError", n |-> <<>>]       \* input() at end of file
        ELSE IF Len(argv) <= 1 /\ ~parsed.ok
            THEN [exc |-> "ValueError", n |-> <<>>]     \* int() of a non-integer
        ELSE IF Len(argv) > 1
            THEN [exc |-> "UnboundLocalError", n |-> <<>>]  \* line 197 reads n
        ELSE IF parsed.val > 0
            THEN [exc |-> "none", n |-> <<parsed.val>>]  \* line 198
        ELSE [exc |-> "UsageError", n |-> <<>>]          \* line 201

(* ---------------------------- resolve_output -------------------------- *)

\* the f-string of lines 223 and 225 with n and nth_fib0 interchanged
ReportValueFirst(k, value, who) ==
    <<"fib(">> \o ToStr(value) \o <<") -> ">> \o ToStr(k)
        \o <<" (", who, " task finished first)">>

\* the f-string of lines 223 and 225, as a sequence of pieces of text
Report(k, value, who) ==
    <<"fib(">> \o ToStr(k) \o <<") -> ">> \o ToStr(value)
        \o <<" (", who, " task finished first)">>

\* resolve_output with the test of line 222 written timestamp0 <= timestamp1
ResolveOutputTieFirst(k, res) ==
    IF res[1].value # res[2].value
        THEN [exc |-> "RuntimeError", line |-> <<>>]
    ELSE IF res[1].ts <= res[2].ts
        THEN [exc |-> "none", line |-> <<Report(k, res[1].value, "first")>>]
    ELSE [exc |-> "none", line |-> <<Report(k, res[1].value, "second")>>]

\* resolve_output with the test of line 222 written timestamp0 < timestamp0
ResolveOutputIgnoresTime(k, res) ==
    IF res[1].value # res[2].value
        THEN [exc |-> "RuntimeError", line |-> <<>>]
    ELSE IF res[1].ts < res[1].ts
        THEN [exc |-> "none", line |-> <<Report(k, res[1].value, "first")>>]
    ELSE [exc |-> "none", line |-> <<Report(k, res[1].value, "second")>>]

\* resolve_output without the sanity check of lines 217-218
ResolveOutputNoCheck(k, res) ==
    IF res[1].ts < res[2].ts
        THEN [exc |-> "none", line |-> <<Report(k, res[1].value, "first")>>]
    ELSE [exc |-> "none", line |-> <<Report(k, res[1].value, "second")>>]

\* the outcome of resolve_output(n, results): the exception it raises
\* ("none" if it returns) and the string it returns
ResolveOutput(k, res) ==
    IF res[1].value # res[2].value
        THEN [exc |-> "RuntimeError", line |-> <<>>]
    ELSE IF res[1].ts < res[2].ts
        THEN [exc |-> "none", line |-> <<Report(k, res[1].value, "first")>>]
    ELSE [exc |-> "none", line |-> <<Report(k, res[1].value, "second")>>]

(* --------------------------------- main ------------------------------- *)

\* the module's docstring, printed on a usage error
Help == "__doc__"

\* main without the except clause of lines 242-243: every exception leaves
\* main
HandlerReraise(e) == [pc |-> "FatalExit", err |-> <<>>]

\* main's except clauses: where an exception raised in the try block takes
\* main and what main prints to stderr on the way.  "FatalExit" is the
\* exception leaving main and run(): the interpreter ends abnormally.
Handler(e) ==
    IF e = "UsageError"
        THEN [pc |-> "ErrorExit", err |-> <<Help>>]
        ELSE [pc |-> "FatalExit", err |-> <<>>]

\* line 237 written gather(fib(n), fib(n - 1))
TaskArgShifted(i, k) == IF i = 1 THEN k ELSE k - 1

\* the argument of the i-th coroutine handed to gather
TaskArg(i, k) == k

\* line 237 awaiting the first task to complete instead of all of them
GatherAnyDone == \E i \in Tasks : status[i] = "done"

\* gather's future is done once every task it wraps is done
GatherDone == \A i \in Tasks : status[i] = "done"

\* line 237 collecting the results as the tasks complete
GatherByCompletion(res) == [i \in Tasks |-> res[finished[i]][1]]

\* the list gather returns: the tasks' results in the order of its arguments
Gather(res) == [i \in Tasks |-> res[i][1]]

\* line 234
MainResolveInput ==
    /\ pc = "Start"
    /\ LET r == ResolveInput(args, stdin)
       IN  IF r.exc = "none"
           THEN /\ n' = r.n
                /\ pc' = "InputResolved"
                /\ UNCHANGED <<exc, stderr>>
           ELSE /\ exc' = r.exc
                /\ pc' = Handler(r.exc).pc
                /\ stderr' = stderr \o Handler(r.exc).err
                /\ n' = n
    /\ UNCHANGED <<stdout, results, line, envVars, taskVars, now>>

\* line 237 with the second coroutine created but never scheduled
MainGatherOnlyFirst ==
    /\ pc = "InputResolved"
    /\ pc' = "TasksRunning"
    /\ status' = [i \in Tasks |-> IF i = 1 THEN "ready" ELSE "none"]
    /\ ready' = <<1>>
    /\ fibarg' = [i \in Tasks |-> <<TaskArg(i, n[1])>>]
    /\ UNCHANGED <<n, exc, stdout, stderr, results, line, envVars, fibpc,
                   nth_fib, stack, rv, result, finished, countVars, now>>

\* line 237, up to the await: gather wraps the two coroutines in tasks, which
\* the loop will start in the order given, and main suspends
MainGather ==
    /\ pc = "InputResolved"
    /\ pc' = "TasksRunning"
    /\ status' = [i \in Tasks |-> "ready"]
    /\ ready' = [i \in Tasks |-> i]
    /\ fibarg' = [i \in Tasks |-> <<TaskArg(i, n[1])>>]
    /\ UNCHANGED <<n, exc, stdout, stderr, results, line, envVars, fibpc,
                   nth_fib, stack, rv, result, finished, countVars, now>>

\* line 237, the await: gather's future is done and main is resumed
MainGatherReturn ==
    /\ pc = "TasksRunning"
    /\ GatherDone
    /\ pc' = "Gathered"
    /\ UNCHANGED <<n, exc, stdout, stderr, results, line, envVars, taskVars,
                   now>>

\* lines 237 and 240: results is bound and resolve_output is called
MainResolveOutput ==
    /\ pc = "Gathered"
    /\ results' = Gather(result)
    /\ LET r == ResolveOutput(n[1], results')
       IN  IF r.exc = "none"
           THEN /\ line' = r.line
                /\ pc' = "ResultsResolved"
                /\ UNCHANGED <<exc, stderr>>
           ELSE /\ exc' = r.exc
                /\ pc' = Handler(r.exc).pc
                /\ stderr' = stderr \o Handler(r.exc).err
                /\ line' = line
    /\ UNCHANGED <<n, stdout, envVars, taskVars, now>>

\* line 240: print to stdout, and main returns
MainPrint ==
    /\ pc = "ResultsResolved"
    /\ stdout' = Append(stdout, line[1])
    /\ pc' = "Reported"
    /\ UNCHANGED <<n, exc, stderr, results, line, envVars, taskVars, now>>

(* --------------------------------- _fib ------------------------------- *)

\* the recurrence of the module's docstring, computed iteratively
RECURSIVE FibIter(_, _, _)
FibIter(k, a, b) == IF k = 0 THEN a ELSE FibIter(k - 1, b, a + b)

Fibonacci(k) == FibIter(k, 0, 1)

\* lines 152-155 without the case n == 1, and the case n == 0 written n <= 0
FibLeafNoOne(k) ==
    IF k <= 0 THEN <<0>>
    ELSE <<>>

\* lines 152-155 with both base cases returning 1
FibLeafOnes(k) ==
    IF k = 0 THEN <<1>>
    ELSE IF k = 1 THEN <<1>>
    ELSE <<>>

\* lines 152-155: the value a base case returns, <<>> when k is no base case
FibLeaf(k) ==
    IF k = 0 THEN <<0>>
    ELSE IF k = 1 THEN <<1>>
    ELSE <<>>

\* the number of _fib calls the naive recursion makes for argument k
RECURSIVE CallTree(_)
CallTree(k) == IF k <= 1 THEN 1 ELSE 1 + CallTree(k - 1) + CallTree(k - 2)

\* line 156: the sum of the two awaited values
FibAdd(a, b) == a + b

\* a frame of _fib: its argument, where it is, and the value of the left
\* operand of line 156 once that is known.  pc is "call" (entered, line 151
\* not yet run), "sleep" (in the sleep of line 151), "L" (awaiting _fib(n - 1))
\* or "R" (awaiting _fib(n - 2))
Frame(k) == [n |-> k, pc |-> "call", a |-> 0]

Top(i) == stack[i][Len(stack[i])]

Pop(i) == SubSeq(stack[i], 1, Len(stack[i]) - 1)

SetTop(i, f) == [stack[i] EXCEPT ![Len(stack[i])] = f]

Running(i) == status[i] = "running"

\* a loop that starts a ready task while another task is running
LoopNeverBusy == TRUE

\* the loop takes the next ready task only when no task is running
LoopIdle == \A j \in Tasks : status[j] # "running"

(* ------------------------------ event loop ---------------------------- *)

\* the loop runs the task at the head of its ready queue; main is suspended
\* in the await of line 237
LoopRun(i) ==
    /\ pc = "TasksRunning"
    /\ LoopIdle
    /\ ready # <<>>
    /\ i = Head(ready)
    /\ ready' = Tail(ready)
    /\ status' = [status EXCEPT ![i] = "running"]
    /\ UNCHANGED <<mainVars, envVars, fibpc, fibarg, nth_fib, stack, rv,
                   result, finished, countVars, now>>

\* the random delay of a sleeping task has elapsed
TimerFires(i) ==
    /\ status[i] = "sleeping"
    /\ status' = [status EXCEPT ![i] = "ready"]
    /\ ready' = Append(ready, i)
    /\ UNCHANGED <<mainVars, envVars, fibpc, fibarg, nth_fib, stack, rv,
                   result, finished, countVars, now>>

(* ----------------------------- fib and _fib --------------------------- *)

\* line 173: fib calls _fib(n)
FibStart(i) ==
    /\ Running(i)
    /\ fibpc[i] = "start"
    /\ fibpc' = [fibpc EXCEPT ![i] = "await"]
    /\ stack' = [stack EXCEPT ![i] = <<Frame(fibarg[i][1])>>]
    /\ calls' = [calls EXCEPT ![i] = @ + 1]
    /\ UNCHANGED <<mainVars, envVars, status, ready, fibarg, nth_fib, rv,
                   result, finished, sleeps, now>>

\* _fib with the sleep of line 151 moved below the base cases: a call with
\* n = 0 or n = 1 goes on without suspending
FibSleepNotAtLeaf(i) ==
    /\ Running(i)
    /\ rv[i] = <<>>
    /\ stack[i] # <<>>
    /\ Top(i).pc = "call"
    /\ stack' = [stack EXCEPT ![i] = SetTop(i, [Top(i) EXCEPT !.pc = "sleep"])]
    /\ IF FibLeaf(Top(i).n) # <<>>
       THEN UNCHANGED <<status, sleeps>>
       ELSE /\ status' = [status EXCEPT ![i] = "sleeping"]
            /\ sleeps' = [sleeps EXCEPT ![i] = @ + 1]
    /\ UNCHANGED <<mainVars, envVars, ready, fibpc, fibarg, nth_fib, rv,
                   result, finished, calls, now>>

\* line 151: the frame just entered awaits sleep(random()); the task gives
\* up the loop
FibSleep(i) ==
    /\ Running(i)
    /\ rv[i] = <<>>
    /\ stack[i] # <<>>
    /\ Top(i).pc = "call"
    /\ stack' = [stack EXCEPT ![i] = SetTop(i, [Top(i) EXCEPT !.pc = "sleep"])]
    /\ status' = [status EXCEPT ![i] = "sleeping"]
    /\ sleeps' = [sleeps EXCEPT ![i] = @ + 1]
    /\ UNCHANGED <<mainVars, envVars, ready, fibpc, fibarg, nth_fib, rv,
                   result, finished, calls, now>>

\* lines 152-156 after the sleep: a base case returns its value, any other
\* argument calls _fib(n - 1)
FibTest(i) ==
    /\ Running(i)
    /\ rv[i] = <<>>
    /\ stack[i] # <<>>
    /\ Top(i).pc = "sleep"
    /\ IF FibLeaf(Top(i).n) # <<>>
       THEN /\ rv' = [rv EXCEPT ![i] =
                        <<[n |-> Top(i).n, value |-> FibLeaf(Top(i).n)[1]]>>]
            /\ stack' = [stack EXCEPT ![i] = Pop(i)]
            /\ calls' = calls
       ELSE /\ stack' = [stack EXCEPT ![i] =
                Append(SetTop(i, [Top(i) EXCEPT !.pc = "L"]),
                       Frame(Top(i).n - 1))]
            /\ calls' = [calls EXCEPT ![i] = @ + 1]
            /\ rv' = rv
    /\ UNCHANGED <<mainVars, envVars, status, ready, fibpc, fibarg, nth_fib,
                   result, finished, sleeps, now>>

\* a returned value reaches the awaiting caller: line 156 takes the left
\* operand and calls _fib(n - 2), or takes the right operand and returns the
\* sum; line 173 binds nth_fib
FibResume(i) ==
    /\ Running(i)
    /\ rv[i] # <<>>
    /\ LET v == rv[i][1].value
       IN  IF stack[i] = <<>>
           THEN /\ nth_fib' = [nth_fib EXCEPT ![i] = <<v>>]
                /\ fibpc' = [fibpc EXCEPT ![i] = "stamp"]
                /\ rv' = [rv EXCEPT ![i] = <<>>]
                /\ stack' = stack
                /\ calls' = calls
           ELSE IF Top(i).pc = "L"
           THEN /\ stack' = [stack EXCEPT ![i] =
                    Append(SetTop(i, [Top(i) EXCEPT !.pc = "R", !.a = v]),
                           Frame(Top(i).n - 2))]
                /\ rv' = [rv EXCEPT ![i] = <<>>]
                /\ calls' = [calls EXCEPT ![i] = @ + 1]
                /\ UNCHANGED <<nth_fib, fibpc>>
           ELSE /\ rv' = [rv EXCEPT ![i] =
                        <<[n |-> Top(i).n, value |-> FibAdd(Top(i).a, v)]>>]
                /\ stack' = [stack EXCEPT ![i] = Pop(i)]
                /\ UNCHANGED <<nth_fib, fibpc, calls>>
    /\ UNCHANGED <<mainVars, envVars, status, ready, fibarg, result,
                   finished, sleeps, now>>

\* lines 174-175: the timestamp is read and fib returns; the task is done
FibStamp(i) ==
    /\ Running(i)
    /\ fibpc[i] = "stamp"
    /\ result' = [result EXCEPT ![i] =
                    <<[value |-> nth_fib[i][1], ts |-> now]>>]
    /\ fibpc' = [fibpc EXCEPT ![i] = "done"]
    /\ status' = [status EXCEPT ![i] = "done"]
    /\ finished' = Append(finished, i)
    /\ UNCHANGED <<mainVars, envVars, ready, fibarg, nth_fib, stack, rv,
                   countVars, now>>

(* --------------------------------- clock ------------------------------ *)

\* time passes while the tasks run
Tick ==
    /\ pc = "TasksRunning"
    /\ now < MaxTime
    /\ now' = now + 1
    /\ UNCHANGED <<mainVars, envVars, taskVars>>

\* time_ns() reads the system's wall clock, which can be set back between
\* two readings
ClockSetBack ==
    /\ pc = "TasksRunning"
    /\ now > 0
    /\ \E t \in 0..(now - 1) : now' = t
    /\ UNCHANGED <<mainVars, envVars, taskVars>>

(* ----------------------------- specification -------------------------- *)

ArgLists == UNION {[1..k -> Strings] : k \in 0..MaxArgs}

\* the lines stdin may hold, or <<>> for an empty stdin
StdinLines == {<<>>} \cup {<<s>> : s \in Strings}

InitTasks ==
    /\ status = [i \in Tasks |-> "none"]
    /\ ready = <<>>
    /\ fibpc = [i \in Tasks |-> "start"]
    /\ fibarg = [i \in Tasks |-> <<>>]
    /\ nth_fib = [i \in Tasks |-> <<>>]
    /\ stack = [i \in Tasks |-> <<>>]
    /\ rv = [i \in Tasks |-> <<>>]
    /\ result = [i \in Tasks |-> <<>>]
    /\ finished = <<>>
    /\ calls = [i \in Tasks |-> 0]
    /\ sleeps = [i \in Tasks |-> 0]

InitRun ==
    /\ args \in ArgLists
    /\ stdin \in (IF args = <<>> THEN StdinLines ELSE {<<>>})
    /\ pc = "Start"
    /\ n = <<>>
    /\ exc = "none"
    /\ stdout = <<>>
    /\ stderr = <<>>
    /\ results = <<>>
    /\ line = <<>>
    /\ InitTasks
    /\ now = 0

Init ==
    /\ InitRun
    /\ favour = 0

Next ==
    \/ MainResolveInput
    \/ MainGather
    \/ MainGatherReturn
    \/ MainResolveOutput
    \/ MainPrint
    \/ \E i \in Tasks : LoopRun(i)
    \/ \E i \in Tasks : TimerFires(i)
    \/ \E i \in Tasks : FibStart(i)
    \/ \E i \in Tasks : FibSleep(i)
    \/ \E i \in Tasks : FibTest(i)
    \/ \E i \in Tasks : FibResume(i)
    \/ \E i \in Tasks : FibStamp(i)
    \/ Tick
    \/ ClockSetBack

Spec == Init /\ [][Next]_vars

\* a step of main, of the loop or of a task: every step but the clock's
ProgramStep ==
    \/ MainResolveInput
    \/ MainGather
    \/ MainGatherReturn
    \/ MainResolveOutput
    \/ MainPrint
    \/ \E i \in Tasks : LoopRun(i) \/ TimerFires(i) \/ FibStart(i)
                            \/ FibSleep(i) \/ FibTest(i) \/ FibResume(i)
                            \/ FibStamp(i)

\* what run() and the loop guarantee: code that can run does run, the loop
\* runs the task at the head of its queue, and every delay, being shorter
\* than a second, elapses
Fairness ==
    /\ WF_vars(MainResolveInput)
    /\ WF_vars(MainGather)
    /\ WF_vars(MainGatherReturn)
    /\ WF_vars(MainResolveOutput)
    /\ WF_vars(MainPrint)
    /\ \A i \in Tasks :
        /\ WF_vars(LoopRun(i))
        /\ WF_vars(TimerFires(i))
        /\ WF_vars(FibStart(i))
        /\ WF_vars(FibSleep(i))
        /\ WF_vars(FibTest(i))
        /\ WF_vars(FibResume(i))
        /\ WF_vars(FibStamp(i))

SpecFair == Init /\ [][Next]_vars /\ Fairness

\* resolve_output and the rest of main on every pair of results, the pairs
\* whose values differ included: main is resumed by gather with two injected
\* results
InitResolve ==
    /\ \E k \in 1..MaxN :
        /\ n = <<k>>
        /\ args = <<ToStr(k)>>
        /\ fibarg = [i \in Tasks |-> <<k>>]
        /\ calls = [i \in Tasks |-> CallTree(k)]
        /\ sleeps = [i \in Tasks |-> CallTree(k)]
    /\ stdin = <<>>
    /\ pc = "Gathered"
    /\ exc = "none"
    /\ stdout = <<>>
    /\ stderr = <<>>
    /\ results = <<>>
    /\ line = <<>>
    /\ status = [i \in Tasks |-> "done"]
    /\ ready = <<>>
    /\ fibpc = [i \in Tasks |-> "done"]
    /\ stack = [i \in Tasks |-> <<>>]
    /\ rv = [i \in Tasks |-> <<>>]
    /\ result \in [Tasks -> {<<[value |-> v, ts |-> t]>> :
                                v \in 0..MaxValue, t \in 0..MaxTime}]
    /\ nth_fib = [i \in Tasks |-> <<result[i][1].value>>]
    /\ finished \in {<<1, 2>>, <<2, 1>>}
    /\ now = MaxTime
    /\ favour = 0

NextResolve ==
    \/ MainResolveOutput
    \/ MainPrint

SpecResolve == InitResolve /\ [][NextResolve]_vars

(* ------------------- runs with the delays biased ---------------------- *)

\* The draws of random() and the clock are the environment's.  SpecFavour
\* is Spec with these choices made in favour of one task: the delays of the
\* favoured task are so short, and every delay of the other task so long,
\* that the other task is not resumed before the favoured one is done, and
\* the clock advances between the two completions.  Each action below is an
\* action of Spec under one more guard, so every run of SpecFavour is a run
\* of Spec.

Other(i) == CHOOSE j \in Tasks : j # i

\* a delay elapses: at once for the favoured task, for the other task only
\* when the favoured one is done
FavouredTimer(i) ==
    /\ i = favour \/ status[favour] = "done"
    /\ TimerFires(i)

\* the clock advances once the favoured task has its timestamp
FavouredTick ==
    /\ status[favour] = "done"
    /\ status[Other(favour)] # "done"
    /\ now = result[favour][1].ts
    /\ Tick

\* the other task reads the clock after it has advanced
FavouredStamp(i) ==
    /\ i = favour \/ (result[favour] # <<>> /\ now > result[favour][1].ts)
    /\ FibStamp(i)

InitFavour ==
    /\ InitRun
    /\ favour \in Tasks

NextFavour ==
    \/ MainResolveInput
    \/ MainGather
    \/ MainGatherReturn
    \/ MainResolveOutput
    \/ MainPrint
    \/ \E i \in Tasks : LoopRun(i)
    \/ \E i \in Tasks : FavouredTimer(i)
    \/ \E i \in Tasks : FibStart(i)
    \/ \E i \in Tasks : FibSleep(i)
    \/ \E i \in Tasks : FibTest(i)
    \/ \E i \in Tasks : FibResume(i)
    \/ \E i \in Tasks : FavouredStamp(i)
    \/ FavouredTick

FairnessFavour ==
    /\ WF_vars(MainResolveInput)
    /\ WF_vars(MainGather)
    /\ WF_vars(MainGatherReturn)
    /\ WF_vars(MainResolveOutput)
    /\ WF_vars(MainPrint)
    /\ WF_vars(FavouredTick)
    /\ \A i \in Tasks :
        /\ WF_vars(LoopRun(i))
        /\ WF_vars(FavouredTimer(i))
        /\ WF_vars(FibStart(i))
        /\ WF_vars(FibSleep(i))
        /\ WF_vars(FibTest(i))
        /\ WF_vars(FibResume(i))
        /\ WF_vars(FavouredStamp(i))

SpecFavour == InitFavour /\ [][NextFavour]_vars /\ FairnessFavour

(* ------------------------------- properties --------------------------- *)

\* the text resolve_input hands to int(): the stdin line or the one argument
InputText ==
    IF Len(args) = 0 THEN stdin
    ELSE IF Len(args) = 1 THEN <<args[1]>>
    ELSE <<>>

\* the label in a report line: its last piece but one
Label(l) == l[Len(l) - 1]

Started == \E i \in Tasks : status[i] # "none"

\* C1: every value a _fib frame returns for argument k, in either task and
\* under every interleaving and delay, is Fibonacci(k) of the recurrence, and
\* so is the value fib binds for its argument; two frames with the same
\* argument return the same value
FibReturnsFibonacci ==
    /\ \A i \in Tasks :
        /\ rv[i] # <<>> => rv[i][1].value = Fibonacci(rv[i][1].n)
        /\ nth_fib[i] # <<>> => nth_fib[i][1] = Fibonacci(fibarg[i][1])
        /\ result[i] # <<>> => result[i][1].value = Fibonacci(fibarg[i][1])
    /\ \A i, j \in Tasks :
        (rv[i] # <<>> /\ rv[j] # <<>> /\ rv[i][1].n = rv[j][1].n)
            => rv[i][1].value = rv[j][1].value

\* C1 witness: a task returns Fibonacci(MaxN) from its outermost frame while
\* the other task is in the middle of its own recursion
FibReturnsFibonacciWitness ==
    \E i, j \in Tasks :
        /\ i # j
        /\ rv[i] # <<>>
        /\ rv[i][1].n = MaxN
        /\ rv[i][1].value = Fibonacci(MaxN)
        /\ Len(stack[j]) > 1

\* C2: in a run of main the two results handed to resolve_output have equal
\* values, and the consistency check never raises
ResultsAgree ==
    /\ GatherDone => result[1][1].value = result[2][1].value
    /\ results # <<>> => results[1].value = results[2].value
    /\ exc # "RuntimeError"

\* C2 witness: resolve_output has returned for n = MaxN in a run where the
\* second task completed first
ResultsAgreeWitness ==
    /\ pc = "ResultsResolved"
    /\ n = <<MaxN>>
    /\ finished = <<2, 1>>
    /\ results[1].value = results[2].value

\* C3: for results with equal values resolve_output returns a line, whose
\* label is "first" exactly when timestamp0 < timestamp1 and "second" when
\* the timestamps are equal and when timestamp0 > timestamp1
TieBreak ==
    (results # <<>> /\ results[1].value = results[2].value) =>
        /\ line # <<>>
        /\ Label(line[1]) \in {"first", "second"}
        /\ Label(line[1]) = "first" <=> results[1].ts < results[2].ts
        /\ results[1].ts = results[2].ts => Label(line[1]) = "second"
        /\ results[1].ts > results[2].ts => Label(line[1]) = "second"

\* C3 witness: equal values and equal timestamps, reported as "second"
TieBreakWitness ==
    /\ results # <<>>
    /\ results[1].value = results[2].value
    /\ results[1].ts = results[2].ts
    /\ line # <<>>
    /\ Label(line[1]) = "second"

\* C4: main is past the await, and anything is reported, only when both
\* tasks are done, each with its value and timestamp
NoPartialReport ==
    (\/ pc \in {"Gathered", "ResultsResolved", "Reported"}
     \/ results # <<>>
     \/ line # <<>>
     \/ stdout # <<>>)
        => \A i \in Tasks :
            /\ status[i] = "done"
            /\ result[i] # <<>>
            /\ stack[i] = <<>>
            /\ rv[i] = <<>>

\* C4 witness: the report line is printed, with both tasks done
NoPartialReportWitness ==
    /\ pc = "Reported"
    /\ Len(stdout) = 1
    /\ \A i \in Tasks : status[i] = "done"

\* C5: results is (result of the first task, result of the second task),
\* whichever task completed first
ResultsInLaunchOrder ==
    results # <<>> => \A i \in Tasks : results[i] = result[i][1]

\* C5 witness: the second task completed first, with another timestamp than
\* the first task, and results is bound
ResultsInLaunchOrderWitness ==
    /\ results # <<>>
    /\ finished = <<2, 1>>
    /\ result[1][1].ts # result[2][1].ts
    /\ results[1] = result[1][1]

\* C6: with two or more arguments resolve_input raises UsageError, and main
\* ends in the error exit with the help text on stderr and nothing on stdout
TooManyArgsIsUsageError ==
    (Len(args) >= 2 /\ pc # "Start") =>
        /\ exc = "UsageError"
        /\ pc = "ErrorExit"
        /\ stderr = <<Help>>
        /\ stdout = <<>>

\* C7: for input that is no integer resolve_input raises UsageError, and main
\* recovers by printing the help text
NonIntegerIsUsageError ==
    (InputText # <<>> /\ InputText[1] \in NonNumeric /\ pc # "Start") =>
        /\ exc = "UsageError"
        /\ pc = "ErrorExit"
        /\ stderr = <<Help>>

\* C8: for the numeral of an integer k as the one argument or the stdin line,
\* resolve_input returns k when k > 0 and raises UsageError when k <= 0; and
\* once the tasks are started n is positive and is the argument of both tasks
\* and the n of the report line
PositiveInput ==
    /\ \A k \in (0 - MaxN)..MaxN :
        (pc # "Start" /\ InputText = <<ToStr(k)>>) =>
            IF k > 0
            THEN n = <<k>> /\ pc \notin {"ErrorExit", "FatalExit"}
            ELSE n = <<>> /\ exc = "UsageError"
    /\ (Started \/ pc \notin {"Start", "ErrorExit", "FatalExit"}) =>
        /\ n # <<>>
        /\ n[1] > 0
        /\ Started => \A i \in Tasks : fibarg[i] = n
        /\ \A i \in Tasks :
            stack[i] # <<>> => stack[i][1].n = n[1]
        /\ line # <<>> =>
            SubSeq(line[1], 1, Len(ToStr(n[1])) + 2)
                = <<"fib(">> \o ToStr(n[1]) \o <<") -> ">>

\* C8 witness: both tasks are in their recursion for n = MaxN, read from stdin
PositiveInputWitness ==
    /\ args = <<>>
    /\ stdin = <<ToStr(MaxN)>>
    /\ n = <<MaxN>>
    /\ \A i \in Tasks : Len(stack[i]) > 1 /\ stack[i][1].n = MaxN

\* C9: when resolve_input raises UsageError main catches it: the help text
\* and nothing else is on stderr, nothing is on stdout, no task was started,
\* and main has ended normally, with nothing left to run
UsageErrorRecovered ==
    exc = "UsageError" =>
        /\ pc = "ErrorExit"
        /\ stderr = <<Help>>
        /\ stdout = <<>>
        /\ ~Started
        /\ \A i \in Tasks : fibarg[i] = <<>> /\ stack[i] = <<>>
        /\ results = <<>> /\ line = <<>>
        /\ ~ENABLED Next

\* C9 witness: the argument "0" has been refused
UsageErrorRecoveredWitness ==
    /\ args = <<ToStr(0)>>
    /\ exc = "UsageError"
    /\ pc = "ErrorExit"

\* C10: for results whose values differ, whatever the timestamps,
\* resolve_output raises an error that is no UsageError and returns no line;
\* main prints neither the help text nor a result line and the error leaves
\* main
MismatchIsFatal ==
    (results # <<>> /\ results[1].value # results[2].value) =>
        /\ exc = "RuntimeError"
        /\ line = <<>>
        /\ pc = "FatalExit"
        /\ stderr = <<>>
        /\ stdout = <<>>
        /\ ~ENABLED NextResolve

\* C10 witness: values that differ, with the first timestamp the earlier one,
\* have ended main abnormally
MismatchIsFatalWitness ==
    /\ results # <<>>
    /\ results[1].value # results[2].value
    /\ results[1].ts < results[2].ts
    /\ pc = "FatalExit"
    /\ exc = "RuntimeError"

\* C11: the timestamps never invert the order in which the two computations
\* completed: if task one completed first then timestamp0 <= timestamp1, and
\* if task two completed first then timestamp1 <= timestamp0
TimestampsFollowCompletion ==
    (\A i \in Tasks : result[i] # <<>>) =>
        /\ finished = <<1, 2>> => result[1][1].ts <= result[2][1].ts
        /\ finished = <<2, 1>> => result[2][1].ts <= result[1][1].ts

\* the state of the entry point's state machine that main's position p
\* stands for: main resumed by gather, with resolve_output not yet returned,
\* is in ResultsResolved
EntryState(p) == IF p = "Gathered" THEN "ResultsResolved" ELSE p

\* C12: the entry point steps only Start -> InputResolved -> TasksRunning ->
\* ResultsResolved -> Reported; it enters the error exit only from Start or
\* InputResolved and only on a UsageError, and the fatal exit only from
\* ResultsResolved and only on the failed consistency check
EntryStateMachine ==
    [][LET from == EntryState(pc)
           to == EntryState(pc')
       IN  \/ to = from
           \/ from = "Start" /\ to = "InputResolved"
           \/ from = "InputResolved" /\ to = "TasksRunning"
           \/ from = "TasksRunning" /\ to = "ResultsResolved"
           \/ from = "ResultsResolved" /\ to = "Reported"
           \/ /\ from \in {"Start", "InputResolved"}
              /\ to = "ErrorExit"
              /\ exc' = "UsageError"
           \/ /\ from = "ResultsResolved"
              /\ to = "FatalExit"
              /\ exc' = "RuntimeError"]_vars

\* a decimal numeral as str() writes a natural number: digits only, and no
\* leading zero
Canonical(s) ==
    /\ s # <<>>
    /\ \A i \in 1..Len(s) : IsDigit(s[i])
    /\ Len(s) > 1 => s[1] # "0"

\* l reads fib(<k>) -> <v> (<first|second> task finished first)
HasShape(l, k, v) ==
    \E p \in 2..Len(l) :
        LET num == SubSeq(l, 2, p - 1)
            val == SubSeq(l, p + 1, Len(l) - 3)
        IN  /\ l[1] = "fib("
            /\ l[p] = ") -> "
            /\ Canonical(num) /\ ParseInt(num).val = k
            /\ Canonical(val) /\ ParseInt(val).val = v
            /\ l[Len(l) - 2] = " ("
            /\ l[Len(l) - 1] \in {"first", "second"}
            /\ l[Len(l)] = " task finished first)"

\* C13: a run that ends in Reported has printed exactly one line to stdout,
\* fib(<n>) -> <Fibonacci(n)> (<first|second> task finished first) for the
\* validated n, and nothing to stderr; no run prints both a result line and
\* the help text, or more than one result line, or a line before it ends
OneReportLine ==
    /\ Len(stdout) <= 1
    /\ ~(stdout # <<>> /\ stderr # <<>>)
    /\ stdout # <<>> => pc = "Reported"
    /\ pc = "Reported" =>
        /\ Len(stdout) = 1
        /\ stderr = <<>>
        /\ exc = "none"
        /\ n # <<>> /\ n[1] > 0
        /\ HasShape(stdout[1], n[1], Fibonacci(n[1]))

\* C13 witness: fib(MaxN) is reported with the first task first
OneReportLineWitness ==
    /\ pc = "Reported"
    /\ n = <<MaxN>>
    /\ stdout = <<Report(MaxN, Fibonacci(MaxN), "first")>>

\* C14: from every validated n both tasks eventually complete and main
\* eventually reaches Reported; and while a task is unfinished there is
\* always a step of the program to take: nothing cancels, times out or
\* deadlocks
EventuallyReported ==
    /\ [](pc = "TasksRunning" => ENABLED ProgramStep)
    /\ (pc = "InputResolved") ~> (GatherDone /\ pc = "Reported")

\* C14 witness: main has reached Reported for n = MaxN, both tasks done, the
\* second one first
EventuallyReportedWitness ==
    /\ pc = "Reported"
    /\ n = <<MaxN>>
    /\ GatherDone
    /\ finished = <<2, 1>>

\* the suspensions behind a stack of frames: none for a frame just entered,
\* one for a frame in its sleep or awaiting its left operand, and one plus
\* the whole call tree of the left operand for a frame awaiting its right one
RECURSIVE SleepsBehind(_)
SleepsBehind(st) ==
    IF st = <<>> THEN 0
    ELSE SleepsBehind(Tail(st)) +
         (IF Head(st).pc = "call" THEN 0
          ELSE IF Head(st).pc = "R" THEN 1 + CallTree(Head(st).n - 1)
          ELSE 1)

\* C15: every _fib call, base cases included, suspends exactly once, before
\* its base-case test and before it calls _fib again: every call entered has
\* suspended once, but the one just entered; a call that has returned has
\* cost its whole call tree in suspensions; and a task that is done has
\* suspended C(n) times, C(0) = C(1) = 1, C(n) = 1 + C(n - 1) + C(n - 2)
OneSleepPerCall ==
    \A i \in Tasks :
        /\ calls[i] - sleeps[i] =
            (IF stack[i] # <<>> /\ Top(i).pc = "call" THEN 1 ELSE 0)
        /\ \A d \in 1..(Len(stack[i]) - 1) : stack[i][d].pc \in {"L", "R"}
        /\ sleeps[i] = SleepsBehind(stack[i])
            + (IF rv[i] # <<>> THEN CallTree(rv[i][1].n) ELSE 0)
            + (IF fibpc[i] \in {"stamp", "done"}
               THEN CallTree(fibarg[i][1]) ELSE 0)
        /\ status[i] = "done" => sleeps[i] = CallTree(fibarg[i][1])

\* C15 witness: a task is done with _fib(MaxN) after C(MaxN) suspensions,
\* while the other task is still in its recursion
OneSleepPerCallWitness ==
    \E i, j \in Tasks :
        /\ status[i] = "done"
        /\ fibarg[i] = <<MaxN>>
        /\ sleeps[i] = CallTree(MaxN)
        /\ stack[j] # <<>>

\* what belongs to task i alone: its frames, the value being returned, the
\* position and locals of fib, its result and its counters
Private(i) ==
    <<stack[i], rv[i], fibpc[i], nth_fib[i], result[i], calls[i], sleeps[i]>>

\* C16: scheduling is cooperative.  At most one task runs; while a task runs,
\* from its resumption to its next sleep or to its timestamp, the other task
\* takes no step; a task takes steps only while it runs; and a running task
\* gives up the loop only by suspending in the sleep at the start of a _fib
\* call or by completing
Cooperative ==
    [][\A i \in Tasks :
        /\ Running(i) => \A j \in Tasks \ {i} : ~Running(j) /\ ~Running(j)'
        /\ Running(i) => \A j \in Tasks \ {i} : Private(j)' = Private(j)
        /\ Private(i)' # Private(i) => Running(i)
        /\ (Running(i) /\ ~Running(i)') =>
            \/ /\ status'[i] = "sleeping"
               /\ sleeps'[i] = sleeps[i] + 1
               /\ stack'[i] # <<>>
               /\ stack'[i][Len(stack'[i])].pc = "sleep"
               /\ Top(i).pc = "call"
            \/ /\ status'[i] = "done"
               /\ fibpc[i] = "stamp"
               /\ result'[i] # <<>>]_vars

\* C16 witness: a task is in the middle of a run, handing a returned value to
\* the caller's frame, while the other task is ready and waits for the loop
CooperativeWitness ==
    \E i, j \in Tasks :
        /\ i # j
        /\ Running(i)
        /\ rv[i] # <<>>
        /\ stack[i] # <<>>
        /\ status[j] = "ready"
        /\ stack[j] # <<>>

\* C17: in a run of main every _fib call, in either task, has an argument k
\* with 0 <= k <= n for the validated n; none is negative
ArgumentsInRange ==
    \A i \in Tasks :
        /\ \A d \in 1..Len(stack[i]) :
            /\ n # <<>>
            /\ 0 <= stack[i][d].n
            /\ stack[i][d].n <= n[1]
        /\ rv[i] # <<>> => (0 <= rv[i][1].n /\ rv[i][1].n <= n[1])
        /\ fibarg[i] # <<>> => (0 < fibarg[i][1] /\ fibarg[i][1] <= n[1])

\* C17 witness: below _fib(MaxN) the recursion has come down to _fib(0)
ArgumentsInRangeWitness ==
    \E i \in Tasks :
        /\ stack[i] # <<>>
        /\ stack[i][1].n = MaxN
        /\ Top(i).n = 0
        /\ n = <<MaxN>>

\* C18: the outcome is not decided by the launch order.  For every validated
\* n and for either task there are runs of main, those in which that task's
\* delays are the short ones and the clock advances between the two
\* completions, and every such run ends with that task reported as the one
\* that finished first: "first" for task one, "second" for task two
EitherTaskCanFinishFirst ==
    /\ (pc = "InputResolved" /\ favour = 1) ~>
        (pc = "Reported" /\ Label(stdout[1]) = "first")
    /\ (pc = "InputResolved" /\ favour = 2) ~>
        (pc = "Reported" /\ Label(stdout[1]) = "second")
    /\ [](pc = "Reported" =>
            Label(stdout[1]) = (IF favour = 1 THEN "first" ELSE "second"))

\* C18 witness: for n = MaxN the second task, launched second, is the one
\* reported to have finished first
EitherTaskCanFinishFirstWitness ==
    /\ pc = "Reported"
    /\ n = <<MaxN>>
    /\ favour = 2
    /\ finished = <<2, 1>>
    /\ Label(stdout[1]) = "second"

\* the delays task i has pending: the frames in the sleep of line 151
PendingDelays(i) ==
    Cardinality({d \in 1..Len(stack[i]) : stack[i][d].pc = "sleep"})

\* C19: within a task the recursion is sequential.  A frame has one callee
\* at a time: _fib(k - 1) while it awaits its left operand, and _fib(k - 2)
\* only once the left operand, the value of the whole call tree of
\* _fib(k - 1), is in hand.  So a task has at most one pending delay, in its
\* innermost frame, and at most n frames, and the program has at most two
\* pending delays
SequentialRecursion ==
    /\ \A i \in Tasks :
        /\ stack[i] # <<>> => Len(stack[i]) <= n[1]
        /\ PendingDelays(i) <= 1
        /\ status[i] = "sleeping" =>
            (stack[i] # <<>> /\ Top(i).pc = "sleep" /\ PendingDelays(i) = 1)
        /\ \A d \in 1..(Len(stack[i]) - 1) :
            LET f == stack[i][d]
                callee == stack[i][d + 1]
            IN  /\ f.pc \in {"L", "R"}
                /\ f.pc = "L" => callee.n = f.n - 1
                /\ f.pc = "R" =>
                    (callee.n = f.n - 2 /\ f.a = Fibonacci(f.n - 1))
        /\ (stack[i] # <<>> /\ Top(i).pc \in {"L", "R"}) =>
            /\ rv[i] # <<>>
            /\ rv[i][1].n = Top(i).n - (IF Top(i).pc = "L" THEN 1 ELSE 2)
    /\ PendingDelays(1) + PendingDelays(2) <= 2
    /\ Cardinality({i \in Tasks : status[i] = "sleeping"}) <= 2

\* C19 witness: both tasks are suspended at the same time, each in the
\* innermost of MaxN frames, awaiting a right operand on the way
SequentialRecursionWitness ==
    \A i \in Tasks :
        /\ status[i] = "sleeping"
        /\ Len(stack[i]) = MaxN
        /\ \E d \in 1..(Len(stack[i]) - 1) : stack[i][d].pc = "R"

====
